---- MODULE Spec2Model ----
(***************************************************************************)
(* Hours-allocation and time-entry validation core of the TimeFlow backend *)
(* (backend/app/apis/{projects,services,time_entries}/__init__.py).        *)
(*                                                                         *)
(* The relational store is modelled as one set of rows per table.  Hours   *)
(* (hours_worked, available_hours, budget_hours) are counted in quarter    *)
(* hours, times of day in minutes; every input of the model lies on the    *)
(* quarter-hour grid, where the handlers' float arithmetic is exact.       *)
(***************************************************************************)
EXTENDS Integers, Sequences, FiniteSets, TLC

VARIABLES companies,          \* table companies: set of ids
          projects,           \* table projects: set of ids
          project_companies,  \* table project_companies (the allocation ledger)
          services,           \* table services
          employees,          \* table employees
          time_entries,       \* table time_entries
          id_seq,             \* the serial columns' next values
          response,           \* the reply to the last request
          workers             \* requests in flight (concurrent specification)

vars == <<companies, projects, project_companies, services, employees,
          time_entries, id_seq, response, workers>>

db == <<companies, projects, project_companies, services, employees,
        time_entries, id_seq>>

(***************************************************************************)
(* Bounds of the model.                                                    *)
(***************************************************************************)
MaxProjects == 1
MaxTimeEntries == 2
MaxServices == 2

(***************************************************************************)
(* Python None / SQL NULL.  Every real id, hour count and time is >= 0.    *)
(***************************************************************************)
NULL == -1

\* the "unlimited" magic number of the derived available-hours fields, in hours
UNLIMITED_SENTINEL == 999999

\* h hours and q quarters, in quarter hours
Hours(h) == 4 * h
\* hh:mm as minutes since midnight
Clock(hh, mm) == 60 * hh + mm

Users == {"u1", "u2"}
Workers == {1, 2}

(***************************************************************************)
(* Generic helpers over tables.                                            *)
(***************************************************************************)
RECURSIVE SumHoursWorked(_)
\* SELECT COALESCE(SUM(hours_worked), 0) over a set of time_entries rows
SumHoursWorked(rows) ==
  IF rows = {} THEN 0
  ELSE LET r == CHOOSE x \in rows : TRUE
       IN  r.hours_worked + SumHoursWorked(rows \ {r})

Abs(x) == IF x < 0 THEN -x ELSE x

Reply(op, status, detail, requested, remaining) ==
  [op |-> op, status |-> status, detail |-> detail,
   requested |-> requested, remaining |-> remaining]

(***************************************************************************)
(* time_entries/__init__.py                                                *)
(***************************************************************************)

\* _validate_hours_range that lets every value through
_validate_hours_range_any(v) == TRUE

\* pydantic field_validator of hours_worked: the request is refused (422)
\* before the handler runs
_validate_hours_range(v) == v = NULL \/ (v >= 0 /\ v <= Hours(24))

\* employees row of the authenticated user, if any
EmployeeRows(emps, user) == {e \in emps : e.email = user}

\* get_or_create_employee: [id, employees, id_seq] after the lookup/insert
get_or_create_employee(emps, seq, user) ==
  IF EmployeeRows(emps, user) # {}
  THEN [id |-> (CHOOSE e \in EmployeeRows(emps, user) : TRUE).id,
        employees |-> emps, id_seq |-> seq]
  ELSE [id |-> seq.employees,
        employees |-> emps \cup {[id |-> seq.employees, email |-> user]},
        id_seq |-> [seq EXCEPT !.employees = @ + 1]]

\* _duration_hours_from_times raises when end_dt <= start_dt
DurationRaises(start_t, end_t) == end_t <= start_t

\* duration.total_seconds() / 3600.0, in quarter hours
_duration_hours_from_times(d, start_t, end_t) == (60 * (end_t - start_t)) \div 900

\* _has_overlap with the bounds of the new window interchanged
_has_overlap_swapped(rows, employee_id, d, start_t, end_t, exclude_id) ==
  \E r \in rows :
     /\ r.employee_id = employee_id
     /\ r.date = d
     /\ r.start_time # NULL
     /\ r.end_time # NULL
     /\ (exclude_id # NULL => r.id # exclude_id)
     /\ ~(r.end_time <= end_t \/ r.start_time >= start_t)

\* _has_overlap: some other windowed entry of the employee on that date
\* with NOT (end_time <= new_start OR start_time >= new_end)
_has_overlap(rows, employee_id, d, start_t, end_t, exclude_id) ==
  \E r \in rows :
     /\ r.employee_id = employee_id
     /\ r.date = d
     /\ r.start_time # NULL
     /\ r.end_time # NULL
     /\ (exclude_id # NULL => r.id # exclude_id)
     /\ ~(r.end_time <= start_t \/ r.start_time >= end_t)

\* PcRows that looks the project up and ignores the company
PcRows_any_company(pcs, project_id, company_id) ==
  {pc \in pcs : pc.project_id = project_id}

\* the project_companies rows of a (project, company) pair
PcRows(pcs, project_id, company_id) ==
  {pc \in pcs : pc.project_id = project_id /\ pc.company_id = company_id}

\* COALESCE(available_hours, 0)
Coalesce0(v) == IF v = NULL THEN 0 ELSE v

\* PairEntries with the project id bound to both query parameters
PairEntries_one_param(rows, project_id, company_id) ==
  {r \in rows : r.project_id = project_id /\ r.company_id = project_id}

\* the time_entries rows of a (project, company) pair
PairEntries(rows, project_id, company_id) ==
  {r \in rows : r.project_id = project_id /\ r.company_id = company_id}

\* hours_mismatch with a tolerance of one hour
hours_mismatch_loose(hours_worked, computed) ==
  Abs(hours_worked - computed) > Hours(1)

\* abs(hours_worked - computed) > 1e-6 (hours), on quarter hours
hours_mismatch(hours_worked, computed) ==
  Abs(hours_worked - computed) * 1000000 > Hours(1)

\* exceeds_available with >= for >
exceeds_available_at_limit(current_used, hours_worked, available_hours) ==
  current_used + hours_worked >= available_hours

\* current_used + float(hours_worked) > available_hours
exceeds_available(current_used, hours_worked, available_hours) ==
  current_used + hours_worked > available_hours

\* update_new_hours that keeps the stored hours when the window moves
update_new_hours_stale(timed, computed, payload_hours, current_hours) ==
  IF payload_hours # NULL THEN payload_hours ELSE current_hours

\* update_time_entry: the hours stored by an update
update_new_hours(timed, computed, payload_hours, current_hours) ==
  IF timed THEN computed
  ELSE IF payload_hours # NULL THEN payload_hours
  ELSE current_hours

Rollback == UNCHANGED db

\* POST /time-entries/
create_time_entry(entry, user) ==
  LET timed    == entry.start_time # NULL /\ entry.end_time # NULL
      computed == _duration_hours_from_times(entry.date, entry.start_time, entry.end_time)
      hours    == IF timed THEN computed ELSE entry.hours_worked
      emp      == get_or_create_employee(employees, id_seq, user)
      pcRows   == PcRows(project_companies, entry.project_id, entry.company_id)
      pc_row   == CHOOSE pc \in pcRows : TRUE
      available_hours == Coalesce0(pc_row.available_hours)
      current_used == SumHoursWorked(PairEntries(time_entries, entry.project_id, entry.company_id))
      op == "create_time_entry"
  IN
  /\ id_seq.time_entries <= MaxTimeEntries
  /\ UNCHANGED workers
  /\ IF ~_validate_hours_range(entry.hours_worked)
     THEN response' = Reply(op, 422, "Hours worked must be between 0 and 24", NULL, NULL) /\ Rollback
     ELSE IF timed /\ DurationRaises(entry.start_time, entry.end_time)
     THEN response' = Reply(op, 400, "end_time must be after start_time", NULL, NULL) /\ Rollback
     ELSE IF timed /\ entry.hours_worked # NULL /\ hours_mismatch(entry.hours_worked, computed)
     THEN response' = Reply(op, 400, "hours_worked must match the duration between start_time and end_time", NULL, NULL) /\ Rollback
     ELSE IF ~timed /\ entry.hours_worked = NULL
     THEN response' = Reply(op, 400, "Provide either hours_worked, or start_time and end_time", NULL, NULL) /\ Rollback
     ELSE IF hours < 0 \/ hours > Hours(24)
     THEN response' = Reply(op, 400, "Hours worked must be between 0 and 24", NULL, NULL) /\ Rollback
     ELSE IF pcRows = {}
     THEN response' = Reply(op, 400, "Project is not linked to company", NULL, NULL) /\ Rollback
     ELSE IF ~pc_row.unlimited_hours /\ exceeds_available(current_used, hours, available_hours)
     THEN response' = Reply(op, 400, "Cannot log hours", hours, available_hours - current_used) /\ Rollback
     ELSE IF timed /\ _has_overlap(time_entries, emp.id, entry.date, entry.start_time, entry.end_time, NULL)
     THEN response' = Reply(op, 400, "This time range overlaps with an existing entry for this day.", NULL, NULL) /\ Rollback
     ELSE /\ time_entries' = time_entries \cup
               {[id |-> emp.id_seq.time_entries, employee_id |-> emp.id,
                 company_id |-> entry.company_id, project_id |-> entry.project_id,
                 service_id |-> entry.service_id, date |-> entry.date,
                 hours_worked |-> hours, start_time |-> entry.start_time,
                 end_time |-> entry.end_time, comment |-> entry.comment]}
          /\ employees' = emp.employees
          /\ id_seq' = [emp.id_seq EXCEPT !.time_entries = @ + 1]
          /\ response' = Reply(op, 200, "OK", NULL, NULL)
          /\ UNCHANGED <<companies, projects, project_companies, services>>

\* OtherEntries that leaves the updated entry in
OtherEntries_with_self(rows, entry_id) == rows

\* the rows with id <> $3
OtherEntries(rows, entry_id) == {r \in rows : r.id # entry_id}

\* OwnedRows that looks the entry up by id alone
OwnedRows_any_employee(rows, entry_id, employee_id) ==
  {r \in rows : r.id = entry_id}

\* the rows WHERE id = $1 AND employee_id = $2
OwnedRows(rows, entry_id, employee_id) ==
  {r \in rows : r.id = entry_id /\ r.employee_id = employee_id}

\* the UPDATE of update_time_entry without its WHERE clause
UpdateRows_every_row(rows, entry_id, new_hours, new_start, new_end, service_id, comment) ==
  { [r EXCEPT !.hours_worked = new_hours, !.start_time = new_start, !.end_time = new_end,
              !.service_id = service_id, !.comment = comment] : r \in rows }

\* UPDATE time_entries SET hours_worked, start_time, end_time, service_id,
\* comment WHERE id = $6
UpdateRows(rows, entry_id, new_hours, new_start, new_end, service_id, comment) ==
  { IF r.id = entry_id
    THEN [r EXCEPT !.hours_worked = new_hours, !.start_time = new_start, !.end_time = new_end,
                   !.service_id = service_id, !.comment = comment]
    ELSE r : r \in rows }

\* PUT /time-entries/{entry_id}
update_time_entry(entry_id, payload, user) ==
  LET emp       == get_or_create_employee(employees, id_seq, user)
      curRows   == OwnedRows(time_entries, entry_id, emp.id)
      current_row == CHOOSE r \in curRows : TRUE
      new_start == IF payload.start_time # NULL THEN payload.start_time ELSE current_row.start_time
      new_end   == IF payload.end_time # NULL THEN payload.end_time ELSE current_row.end_time
      timed     == new_start # NULL /\ new_end # NULL
      computed  == _duration_hours_from_times(current_row.date, new_start, new_end)
      new_hours == update_new_hours(timed, computed, payload.hours_worked, current_row.hours_worked)
      current_used_other ==
          SumHoursWorked(OtherEntries(PairEntries(time_entries, current_row.project_id,
                                                  current_row.company_id), entry_id))
      pcRows    == PcRows(project_companies, current_row.project_id, current_row.company_id)
      avail_row == CHOOSE pc \in pcRows : TRUE
      available_hours == Coalesce0(avail_row.available_hours)
      op == "update_time_entry"
  IN
  /\ UNCHANGED workers
  /\ IF ~_validate_hours_range(payload.hours_worked)
     THEN response' = Reply(op, 422, "Hours worked must be between 0 and 24", NULL, NULL) /\ Rollback
     ELSE IF curRows = {}
     THEN response' = Reply(op, 404, "Time entry not found", NULL, NULL) /\ Rollback
     ELSE IF timed /\ DurationRaises(new_start, new_end)
     THEN response' = Reply(op, 400, "end_time must be after start_time", NULL, NULL) /\ Rollback
     ELSE IF timed /\ payload.hours_worked # NULL /\ hours_mismatch(payload.hours_worked, computed)
     THEN response' = Reply(op, 400, "hours_worked must match the duration between start_time and end_time", NULL, NULL) /\ Rollback
     ELSE IF new_hours < 0 \/ new_hours > Hours(24)
     THEN response' = Reply(op, 400, "Hours worked must be between 0 and 24", NULL, NULL) /\ Rollback
     ELSE IF timed /\ _has_overlap(time_entries, emp.id, current_row.date, new_start, new_end, entry_id)
     THEN response' = Reply(op, 400, "This time range overlaps with an existing entry for this day.", NULL, NULL) /\ Rollback
     ELSE IF pcRows = {}
     THEN response' = Reply(op, 400, "Project is not linked to company", NULL, NULL) /\ Rollback
     ELSE IF ~avail_row.unlimited_hours /\ exceeds_available(current_used_other, new_hours, available_hours)
     THEN response' = Reply(op, 400, "Cannot log hours", new_hours, available_hours - current_used_other) /\ Rollback
     ELSE /\ time_entries' = UpdateRows(time_entries, entry_id, new_hours, new_start, new_end,
                                        payload.service_id, payload.comment)
          /\ response' = Reply(op, 200, "OK", NULL, NULL)
          /\ UNCHANGED <<companies, projects, project_companies, services, employees, id_seq>>

\* DELETE /time-entries/{entry_id}; no transaction: the employee row that
\* get_or_create_employee inserts stays even when the delete finds nothing
delete_time_entry(entry_id, user) ==
  LET emp  == get_or_create_employee(employees, id_seq, user)
      rows == OwnedRows(time_entries, entry_id, emp.id)
      op   == "delete_time_entry"
  IN
  /\ UNCHANGED workers
  /\ employees' = emp.employees
  /\ id_seq' = emp.id_seq
  /\ time_entries' = time_entries \ rows
  /\ response' = IF rows = {} THEN Reply(op, 404, "Time entry not found", NULL, NULL)
                 ELSE Reply(op, 200, "OK", NULL, NULL)
  /\ UNCHANGED <<companies, projects, project_companies, services>>

(***************************************************************************)
(* projects/__init__.py                                                    *)
(***************************************************************************)

Range(seq) == {seq[i] : i \in 1..Len(seq)}

\* get_project_with_companies returns None for a project that is not stored
NONE_PROJECT == {"None"}

\* validate_company_links: duplicate company ids refuse the request (422)
validate_company_links(v) ==
  Cardinality({v[i].company_id : i \in 1..Len(v)}) = Len(v)

\* ProjectUpdateRequest.company_links is Optional: a request that does not
\* supply it is a record without that field
HasLinks(project) == "company_links" \in DOMAIN project

\* missing_ids that looks up the first company of the list only
missing_ids_first_only(company_links) ==
  IF company_links = <<>> THEN {} ELSE {company_links[1].company_id} \ companies

\* set(company_ids) - existing_ids
missing_ids(company_links) ==
  {company_links[i].company_id : i \in 1..Len(company_links)} \ companies

\* what the schema (migrations/init_database.sql) does to time_entries when
\* the project_companies rows of a project are deleted: nothing, the
\* entries stay (no cascading re-validation)
TimeEntriesAfterLinkDelete(rows, project_id) == rows

\* get_project_with_companies: the company_links of the project read back,
\* as a set keyed by company id (None when the project does not exist)
get_project_with_companies(project_id) ==
  IF project_id \notin projects THEN NONE_PROJECT
  ELSE {[company_id |-> pc.company_id, available_hours |-> pc.available_hours,
         unlimited_hours |-> pc.unlimited_hours] :
           pc \in {r \in project_companies : r.project_id = project_id /\ r.company_id \in companies}}

\* update_project_companies that inserts the links and deletes nothing
update_project_companies_merge(pcs, project_id, company_links) ==
  pcs \cup
  {[project_id |-> project_id, company_id |-> link.company_id,
    available_hours |-> IF link.unlimited_hours THEN NULL ELSE link.available_hours,
    unlimited_hours |-> link.unlimited_hours] : link \in Range(company_links)}

\* update_project_companies that writes nothing
update_project_companies_skip(pcs, project_id, company_links) == pcs

\* update_project_companies: delete all rows of the project, insert the links
update_project_companies(pcs, project_id, company_links) ==
  {pc \in pcs : pc.project_id # project_id} \cup
  {[project_id |-> project_id, company_id |-> link.company_id,
    available_hours |-> IF link.unlimited_hours THEN NULL ELSE link.available_hours,
    unlimited_hours |-> link.unlimited_hours] : link \in Range(company_links)}

\* POST /projects/
create_project(project) ==
  LET op == "create_project"
      project_id == id_seq.projects
  IN
  /\ id_seq.projects <= MaxProjects
  /\ UNCHANGED workers
  /\ IF ~validate_company_links(project.company_links)
     THEN response' = Reply(op, 422, "Duplicate companies are not allowed", NULL, NULL) /\ Rollback
     ELSE IF missing_ids(project.company_links) # {}
     THEN response' = Reply(op, 400, "Companies not found", NULL, NULL) /\ Rollback
     ELSE /\ projects' = projects \cup {project_id}
          /\ id_seq' = [id_seq EXCEPT !.projects = @ + 1]
          /\ project_companies' =
               IF project.company_links # <<>>
               THEN update_project_companies(project_companies, project_id, project.company_links)
               ELSE project_companies
          /\ response' = Reply(op, 200, "OK", NULL, NULL)
          /\ UNCHANGED <<companies, services, employees, time_entries>>

\* PUT /projects/{project_id}
update_project(project_id, project) ==
  LET op == "update_project"
  IN
  /\ UNCHANGED workers
  /\ IF HasLinks(project) /\ ~validate_company_links(project.company_links)
     THEN response' = Reply(op, 422, "Duplicate companies are not allowed", NULL, NULL) /\ Rollback
     ELSE IF project_id \notin projects
     THEN response' = Reply(op, 404, "Project not found", NULL, NULL) /\ Rollback
     ELSE IF HasLinks(project) /\ missing_ids(project.company_links) # {}
     THEN response' = Reply(op, 400, "Companies not found", NULL, NULL) /\ Rollback
     ELSE /\ project_companies' =
               IF HasLinks(project)
               THEN update_project_companies(project_companies, project_id, project.company_links)
               ELSE project_companies
          /\ time_entries' =
               IF HasLinks(project)
               THEN TimeEntriesAfterLinkDelete(time_entries, project_id)
               ELSE time_entries
          /\ response' = Reply(op, 200, "OK", NULL, NULL)
          /\ UNCHANGED <<companies, projects, services, employees, id_seq>>

(***************************************************************************)
(* services/__init__.py                                                    *)
(***************************************************************************)

\* Python None of the Optional[str] fields
NONE == "None"

RECURSIVE SumAvailableBounded(_)
\* SUM(CASE WHEN unlimited_hours = FALSE THEN available_hours ELSE 0 END)
SumAvailableBounded(rows) ==
  IF rows = {} THEN 0
  ELSE LET r == CHOOSE x \in rows : TRUE
       IN  (IF ~r.unlimited_hours /\ r.available_hours # NULL THEN r.available_hours ELSE 0)
           + SumAvailableBounded(rows \ {r})

RECURSIVE SumAvailable(_)
\* SUM(available_hours): NULLs are skipped
SumAvailable(rows) ==
  IF rows = {} THEN 0
  ELSE LET r == CHOOSE x \in rows : TRUE
       IN  (IF r.available_hours # NULL THEN r.available_hours ELSE 0)
           + SumAvailable(rows \ {r})

ProjectRows(pcs, project_id) == {pc \in pcs : pc.project_id = project_id}

\* create_service: the available hours the budget is validated against
create_available_hours(pcs, project_id, company_id) ==
  IF company_id # NULL
  THEN LET rows == PcRows(pcs, project_id, company_id)
       IN  IF rows # {} /\ (CHOOSE r \in rows : TRUE).unlimited_hours
           THEN Hours(UNLIMITED_SENTINEL)
           ELSE IF rows # {} THEN Coalesce0((CHOOSE r \in rows : TRUE).available_hours)
           ELSE 0
  ELSE IF \E r \in ProjectRows(pcs, project_id) : r.unlimited_hours
       THEN Hours(UNLIMITED_SENTINEL)
       ELSE SumAvailableBounded(ProjectRows(pcs, project_id))

\* update_service: the available hours the budget is validated against
update_available_hours(pcs, project_id, new_company_id) ==
  IF new_company_id # NULL
  THEN LET rows == PcRows(pcs, project_id, new_company_id)
       IN  IF rows # {} THEN Coalesce0((CHOOSE r \in rows : TRUE).available_hours) ELSE 0
  ELSE SumAvailable(ProjectRows(pcs, project_id))

\* float(budget_hours) > available_hours
budget_exceeds(budget_hours, available_hours) == budget_hours > available_hours

\* pydantic validators of ServiceCreateRequest
validate_service(service) ==
  /\ service.price_type \in {"FIXED", "HOURLY"}
  /\ service.budget_hours >= 0
  /\ service.price_type = "FIXED" => service.fixed_price # NULL
  /\ service.price_type = "HOURLY" => service.hourly_rate # NULL

\* POST /services/
create_service(service) ==
  LET op == "create_service"
      available_hours == create_available_hours(project_companies, service.project_id, service.company_id)
  IN
  /\ id_seq.services <= MaxServices
  /\ UNCHANGED workers
  /\ IF ~validate_service(service)
     THEN response' = Reply(op, 422, "Invalid service", NULL, NULL) /\ Rollback
     ELSE IF service.project_id \notin projects
     THEN response' = Reply(op, 404, "Project not found", NULL, NULL) /\ Rollback
     ELSE IF service.company_id # NULL /\ service.company_id \notin companies
     THEN response' = Reply(op, 404, "Company not found", NULL, NULL) /\ Rollback
     ELSE IF budget_exceeds(service.budget_hours, available_hours)
     THEN response' = Reply(op, 400, "budget_hours cannot exceed available hours",
                            service.budget_hours, available_hours) /\ Rollback
     ELSE /\ services' = services \cup
               {[id |-> id_seq.services, project_id |-> service.project_id,
                 company_id |-> service.company_id, name |-> service.name,
                 price_type |-> service.price_type, budget_hours |-> service.budget_hours,
                 fixed_price |-> service.fixed_price, hourly_rate |-> service.hourly_rate]}
          /\ id_seq' = [id_seq EXCEPT !.services = @ + 1]
          /\ response' = Reply(op, 200, "OK", NULL, NULL)
          /\ UNCHANGED <<companies, projects, project_companies, employees, time_entries>>

\* Patched that takes the supplied value even when none is supplied
Patched_supplied_only(supplied, stored) == supplied

\* the stored value, or the supplied one when the update supplies it
Patched(supplied, stored) == IF supplied # NULL THEN supplied ELSE stored
PatchedStr(supplied, stored) == IF supplied # NONE THEN supplied ELSE stored

\* PUT /services/{service_id}
update_service(service_id, service) ==
  LET op == "update_service"
      rows == {r \in services : r.id = service_id}
      existing_service == CHOOSE r \in rows : TRUE
      no_fields == /\ service.company_id = NULL /\ service.name = NONE
                   /\ service.price_type = NONE /\ service.budget_hours = NULL
                   /\ service.fixed_price = NULL /\ service.hourly_rate = NULL
      validate_budget == service.company_id # NULL \/ service.budget_hours # NULL
      new_company_id == Patched(service.company_id, existing_service.company_id)
      new_budget_hours == Patched(service.budget_hours, existing_service.budget_hours)
      available_hours == update_available_hours(project_companies, existing_service.project_id, new_company_id)
  IN
  /\ UNCHANGED workers
  /\ IF ~(service.price_type \in {NONE, "FIXED", "HOURLY"})
     THEN response' = Reply(op, 422, "Invalid service", NULL, NULL) /\ Rollback
     ELSE IF rows = {}
     THEN response' = Reply(op, 404, "Service not found", NULL, NULL) /\ Rollback
     ELSE IF service.company_id # NULL /\ service.company_id \notin companies
     THEN response' = Reply(op, 404, "Company not found", NULL, NULL) /\ Rollback
     ELSE IF no_fields
     THEN response' = Reply(op, 400, "No fields to update", NULL, NULL) /\ Rollback
     ELSE IF validate_budget /\ budget_exceeds(new_budget_hours, available_hours)
     THEN response' = Reply(op, 400, "budget_hours cannot exceed available hours",
                            new_budget_hours, available_hours) /\ Rollback
     ELSE /\ services' = (services \ rows) \cup
               {[existing_service EXCEPT
                   !.company_id = Patched(service.company_id, @),
                   !.name = PatchedStr(service.name, @),
                   !.price_type = PatchedStr(service.price_type, @),
                   !.budget_hours = Patched(service.budget_hours, @),
                   !.fixed_price = Patched(service.fixed_price, @),
                   !.hourly_rate = Patched(service.hourly_rate, @)]}
          /\ response' = Reply(op, 200, "OK", NULL, NULL)
          /\ UNCHANGED <<companies, projects, project_companies, employees, time_entries, id_seq>>

\* time_entries_count that matches the entry id against the service id
time_entries_count_by_id(rows, service_id) ==
  Cardinality({t \in rows : t.id = service_id})

\* SELECT COUNT(*) FROM time_entries WHERE service_id = $1
time_entries_count(rows, service_id) ==
  Cardinality({t \in rows : t.service_id = service_id})

\* DELETE /services/{service_id}
delete_service(service_id) ==
  LET op == "delete_service"
      rows == {r \in services : r.id = service_id}
  IN
  /\ UNCHANGED workers
  /\ IF rows = {}
     THEN response' = Reply(op, 404, "Service not found", NULL, NULL) /\ Rollback
     ELSE IF time_entries_count(time_entries, service_id) > 0
     THEN response' = Reply(op, 400, "Cannot delete service that has time entries", NULL, NULL) /\ Rollback
     ELSE /\ services' = services \ rows
          /\ response' = Reply(op, 200, "OK", NULL, NULL)
          /\ UNCHANGED <<companies, projects, project_companies, employees, time_entries, id_seq>>

\* money is counted in quarters of a currency unit, as hours are in quarter
\* hours: a price of p units is Money(p), hours times a rate per hour is the
\* number of quarter hours times the rate
Money(p) == Hours(1) * p

\* JoinedEntries that joins the time entries of the service's project
JoinedEntries_by_project(rows, s) == {te \in rows : te.project_id = s.project_id}

\* LEFT JOIN time_entries te ON s.id = te.service_id
JoinedEntries(rows, s) == {te \in rows : te.service_id = s.id}

\* one row of services_query: the service with its spent_hours, budget_cost
\* and spent_cost
ServiceRow(s, entries) ==
  LET spent_hours == SumHoursWorked(JoinedEntries(entries, s))
  IN  [id |-> s.id, project_id |-> s.project_id, company_id |-> s.company_id,
       name |-> s.name, price_type |-> s.price_type, budget_hours |-> s.budget_hours,
       fixed_price |-> s.fixed_price, hourly_rate |-> s.hourly_rate,
       spent_hours |-> spent_hours,
       budget_cost |-> IF s.price_type = "FIXED" THEN Money(Coalesce0(s.fixed_price))
                       ELSE IF s.price_type = "HOURLY"
                            THEN s.budget_hours * Coalesce0(s.hourly_rate)
                            ELSE 0,
       spent_cost  |-> IF s.price_type = "FIXED" THEN 0
                       ELSE IF s.price_type = "HOURLY"
                            THEN spent_hours * Coalesce0(s.hourly_rate)
                            ELSE 0]

RECURSIVE ServicesTotals(_)
\* the loop that adds each row's figures to the four totals
ServicesTotals(rows) ==
  IF rows = {}
  THEN [hours_budget |-> 0, hours_spent |-> 0, cost_budget |-> 0, cost_spent |-> 0]
  ELSE LET row  == CHOOSE r \in rows : TRUE
           rest == ServicesTotals(rows \ {row})
       IN  [hours_budget |-> rest.hours_budget + row.budget_hours,
            hours_spent  |-> rest.hours_spent + row.spent_hours,
            cost_budget  |-> rest.cost_budget + row.budget_cost,
            cost_spent   |-> rest.cost_spent + row.spent_cost]

\* GET /services/project/{project_id}/summary; the answer carries the rows
\* and the totals
get_project_services_summary(project_id) ==
  LET op == "get_project_services_summary"
      services_rows == {ServiceRow(s, time_entries) : s \in {x \in services : x.project_id = project_id}}
  IN
  /\ UNCHANGED <<companies, projects, project_companies, services, employees,
                 time_entries, id_seq, workers>>
  /\ IF project_id \notin projects
     THEN response' = Reply(op, 404, "Project not found", NULL, NULL)
     ELSE response' = [op |-> op, status |-> 200, detail |-> "OK",
                       requested |-> NULL, remaining |-> NULL,
                       project_id |-> project_id,
                       services |-> services_rows,
                       totals |-> ServicesTotals(services_rows)]

(***************************************************************************)
(* Inputs.                                                                 *)
(***************************************************************************)
Dates == {1, 2}

Link(c, h, u) == [company_id |-> c, available_hours |-> h, unlimited_hours |-> u]

\* company_links lists submitted to create_project / update_project
CompanyLinkLists ==
  { <<>>,
    <<Link(1, Hours(8), FALSE)>>,
    <<Link(1, NULL, TRUE)>>,
    <<Link(1, Hours(2), FALSE), Link(2, Hours(8), FALSE)>>,
    <<Link(1, Hours(8), FALSE), Link(1, Hours(2), FALSE)>>,
    <<Link(3, Hours(8), FALSE)>> }

ProjectCreateRequests == {[company_links |-> l] : l \in CompanyLinkLists}
ProjectUpdateRequests == ProjectCreateRequests \cup {[project_name |-> "renamed"]}

\* (hours_worked, start_time, end_time) of the submitted time entries
Shape(h, s, e) == [hours_worked |-> h, start_time |-> s, end_time |-> e]

\* entries that carry hours only
HourShapes ==
  { Shape(2, NULL, NULL),                          \* 0.5 h
    Shape(Hours(8), NULL, NULL) }

\* entries that carry a time window
WindowShapes ==
  { Shape(NULL, Clock(9, 0), Clock(11, 0)),
    Shape(NULL, Clock(10, 0), Clock(12, 0)),
    Shape(NULL, Clock(11, 0), Clock(12, 0)) }

\* entries that carry both, a window the wrong way round, or nothing
MixedShapes ==
  { Shape(NULL, NULL, NULL),
    Shape(Hours(25), NULL, NULL),
    Shape(Hours(5), Clock(9, 0), Clock(13, 0)),
    Shape(Hours(2), Clock(9, 0), Clock(11, 0)),
    Shape(NULL, Clock(11, 0), Clock(9, 0)),
    Shape(NULL, Clock(9, 0), NULL) }

CreateRequest(c, p, d, t) ==
  [company_id |-> c, project_id |-> p, date |-> d, service_id |-> NULL,
   comment |-> NULL, hours_worked |-> t.hours_worked,
   start_time |-> t.start_time, end_time |-> t.end_time]

\* hours on both companies; the two overlapping windows and the malformed
\* requests on company 1
TimeEntryCreateRequests ==
  {CreateRequest(1, 1, 1, t) : t \in HourShapes} \cup
  {CreateRequest(2, 1, 1, Shape(Hours(8), NULL, NULL))} \cup
  {CreateRequest(1, 1, 1, t) : t \in {w \in WindowShapes : w.start_time < Clock(11, 0)}} \cup
  {CreateRequest(1, 1, 1, t) : t \in MixedShapes}

TimeEntryUpdateRequests ==
  { [service_id |-> NULL, comment |-> NULL, hours_worked |-> t.hours_worked,
     start_time |-> t.start_time, end_time |-> t.end_time] :
       t \in { Shape(2, NULL, NULL),
               Shape(NULL, Clock(11, 0), NULL),
               Shape(NULL, Clock(11, 0), Clock(12, 0)) } }

(***************************************************************************)
(* Specification: the handlers run one request at a time.                  *)
(***************************************************************************)
Init ==
  /\ companies = {1, 2}
  /\ projects = {}
  /\ project_companies = {}
  /\ services = {}
  /\ employees = {}
  /\ time_entries = {}
  /\ id_seq = [projects |-> 1, services |-> 1, employees |-> 1, time_entries |-> 1]
  /\ response = Reply("none", 0, "", NULL, NULL)
  /\ workers = [w \in Workers |-> [pc |-> "idle"]]

CreateTimeEntry == \E entry \in TimeEntryCreateRequests : create_time_entry(entry, "u1")
UpdateTimeEntry == \E id \in 1..MaxTimeEntries, payload \in TimeEntryUpdateRequests :
                      update_time_entry(id, payload, "u1")
DeleteTimeEntry == \E id \in 1..MaxTimeEntries : delete_time_entry(id, "u1")
CreateProject   == \E project \in ProjectCreateRequests : create_project(project)
UpdateProject   == \E id \in 1..MaxProjects, project \in ProjectUpdateRequests : update_project(id, project)

Next ==
  \/ CreateTimeEntry
  \/ UpdateTimeEntry
  \/ DeleteTimeEntry
  \/ CreateProject
  \/ UpdateProject

Spec == Init /\ [][Next]_vars

(***************************************************************************)
(* Specification of the service budget validator: service and project      *)
(* requests, one at a time.                                                *)
(***************************************************************************)
ServiceLinkLists ==
  { <<Link(1, Hours(10), FALSE)>>,
    <<Link(1, Hours(5), FALSE)>>,
    <<Link(1, NULL, TRUE)>>,
    <<Link(1, Hours(10), FALSE), Link(2, Hours(5), FALSE)>> }

ServiceCreateRequests ==
  { [project_id |-> 1, company_id |-> c, name |-> "a", price_type |-> "HOURLY",
     budget_hours |-> b, fixed_price |-> NULL, hourly_rate |-> 50] :
       c \in {NULL, 1}, b \in {Hours(1), Hours(10), Hours(1000000)} }

ServiceUpdateRequests ==
  { [company_id |-> c, name |-> NONE, price_type |-> NONE, budget_hours |-> b,
     fixed_price |-> NULL, hourly_rate |-> NULL] :
       c \in {NULL, 2}, b \in {NULL, Hours(10)} } \cup
  { [company_id |-> NULL, name |-> "b", price_type |-> NONE, budget_hours |-> NULL,
     fixed_price |-> NULL, hourly_rate |-> NULL] }

CreateService == \E service \in ServiceCreateRequests : create_service(service)
UpdateService == \E id \in 1..MaxServices, service \in ServiceUpdateRequests : update_service(id, service)
DeleteService == \E id \in 1..MaxServices : delete_service(id)
CreateProjectForServices == \E l \in ServiceLinkLists : create_project([company_links |-> l])
UpdateProjectForServices == \E id \in 1..MaxProjects, l \in ServiceLinkLists : update_project(id, [company_links |-> l])

NextServices ==
  \/ CreateService
  \/ UpdateService
  \/ DeleteService
  \/ CreateProjectForServices
  \/ UpdateProjectForServices

SpecServices == Init /\ [][NextServices]_vars

(***************************************************************************)
(* Specification of the overlap check: two employees log and move time     *)
(* windows on two dates of a project with unlimited hours, one request at  *)
(* a time.                                                                 *)
(***************************************************************************)
WindowUpdate(s, e) ==
  [service_id |-> NULL, comment |-> NULL, hours_worked |-> NULL,
   start_time |-> s, end_time |-> e]

WindowUpdateRequests ==
  { WindowUpdate(Clock(10, 0), NULL),
    WindowUpdate(NULL, Clock(12, 0)),
    WindowUpdate(Clock(9, 0), Clock(11, 0)) }

CreateWindowEntry ==
  \E u \in Users, d \in Dates, t \in WindowShapes : create_time_entry(CreateRequest(1, 1, d, t), u)
UpdateWindowEntry ==
  \E u \in Users, id \in 1..MaxTimeEntries, payload \in WindowUpdateRequests :
     update_time_entry(id, payload, u)
CreateUnlimitedProject == create_project([company_links |-> <<Link(1, NULL, TRUE)>>])

NextOverlap ==
  \/ CreateWindowEntry
  \/ UpdateWindowEntry
  \/ CreateUnlimitedProject

SpecOverlap == Init /\ [][NextOverlap]_vars

(***************************************************************************)
(* Specification of concurrent create_time_entry requests.  Each request   *)
(* runs in its own connection and transaction (conn.transaction() with the *)
(* server's default isolation, READ COMMITTED, and no row locks): every    *)
(* await is a suspension point, a query sees what is committed when it     *)
(* runs, and the insert becomes visible to the others at commit.           *)
(***************************************************************************)
Idle == [pc |-> "idle"]

ConcRequests ==
  { CreateRequest(1, 1, 1, t) :
      t \in { Shape(Hours(8), NULL, NULL),
              Shape(2, NULL, NULL),
              Shape(NULL, Clock(9, 0), Clock(11, 0)),
              Shape(NULL, Clock(10, 0), Clock(12, 0)),
              Shape(NULL, Clock(11, 0), Clock(12, 0)),
              Shape(Hours(5), Clock(9, 0), Clock(13, 0)) } }

\* the request is refused and its transaction rolled back
ConcReject(w, status, detail, requested, remaining) ==
  /\ workers' = [workers EXCEPT ![w] = Idle]
  /\ response' = Reply("create_time_entry", status, detail, requested, remaining)
  /\ Rollback

\* lines 218-236: input checks, connect, BEGIN, get_or_create_employee
ConcBegin(w, entry, user) ==
  LET timed    == entry.start_time # NULL /\ entry.end_time # NULL
      computed == _duration_hours_from_times(entry.date, entry.start_time, entry.end_time)
      hours    == IF timed THEN computed ELSE entry.hours_worked
      rows     == EmployeeRows(employees, user)
  IN
  /\ workers[w].pc = "idle"
  /\ id_seq.time_entries <= MaxTimeEntries
  /\ IF ~_validate_hours_range(entry.hours_worked)
     THEN ConcReject(w, 422, "Hours worked must be between 0 and 24", NULL, NULL)
     ELSE IF timed /\ DurationRaises(entry.start_time, entry.end_time)
     THEN ConcReject(w, 400, "end_time must be after start_time", NULL, NULL)
     ELSE IF timed /\ entry.hours_worked # NULL /\ hours_mismatch(entry.hours_worked, computed)
     THEN ConcReject(w, 400, "hours_worked must match the duration between start_time and end_time", NULL, NULL)
     ELSE IF ~timed /\ entry.hours_worked = NULL
     THEN ConcReject(w, 400, "Provide either hours_worked, or start_time and end_time", NULL, NULL)
     ELSE IF hours < 0 \/ hours > Hours(24)
     THEN ConcReject(w, 400, "Hours worked must be between 0 and 24", NULL, NULL)
     ELSE /\ workers' = [workers EXCEPT ![w] =
                 [pc |-> "check_link", entry |-> [entry EXCEPT !.hours_worked = hours],
                  user |-> user,
                  \* NULL: the employee row is inserted by this transaction
                  employee_id |-> IF rows # {} THEN (CHOOSE e \in rows : TRUE).id ELSE NULL]]
          /\ UNCHANGED <<response, companies, projects, project_companies, services,
                         employees, time_entries, id_seq>>

\* lines 238-245: the project_companies row of the pair
ConcCheckLink(w) ==
  LET me     == workers[w]
      pcRows == PcRows(project_companies, me.entry.project_id, me.entry.company_id)
      pc_row == CHOOSE pc \in pcRows : TRUE
  IN
  /\ me.pc = "check_link"
  /\ IF pcRows = {}
     THEN ConcReject(w, 400, "Project is not linked to company", NULL, NULL)
     ELSE /\ workers' = [workers EXCEPT ![w] =
                 [pc |-> "check_budget", entry |-> me.entry, user |-> me.user,
                  employee_id |-> me.employee_id, pc_row |-> pc_row]]
          /\ UNCHANGED <<response, companies, projects, project_companies, services,
                         employees, time_entries, id_seq>>

\* lines 247-265: the hours already used, read from the committed rows
ConcCheckBudget(w) ==
  LET me == workers[w]
      available_hours == Coalesce0(me.pc_row.available_hours)
      current_used == SumHoursWorked(PairEntries(time_entries, me.entry.project_id, me.entry.company_id))
  IN
  /\ me.pc = "check_budget"
  /\ IF ~me.pc_row.unlimited_hours /\ exceeds_available(current_used, me.entry.hours_worked, available_hours)
     THEN ConcReject(w, 400, "Cannot log hours", me.entry.hours_worked, available_hours - current_used)
     ELSE /\ workers' = [workers EXCEPT ![w].pc = "check_overlap"]
          /\ UNCHANGED <<response, companies, projects, project_companies, services,
                         employees, time_entries, id_seq>>

\* lines 267-273: the overlap query, over the committed rows
ConcCheckOverlap(w) ==
  LET me == workers[w]
  IN
  /\ me.pc = "check_overlap"
  /\ IF /\ me.entry.start_time # NULL /\ me.entry.end_time # NULL
        /\ _has_overlap(time_entries, me.employee_id, me.entry.date,
                        me.entry.start_time, me.entry.end_time, NULL)
     THEN ConcReject(w, 400, "This time range overlaps with an existing entry for this day.", NULL, NULL)
     ELSE /\ workers' = [workers EXCEPT ![w].pc = "insert"]
          /\ UNCHANGED <<response, companies, projects, project_companies, services,
                         employees, time_entries, id_seq>>

\* lines 275-318: INSERT and COMMIT; a second employee row for the same
\* email violates the unique index and fails the request (500)
ConcInsert(w) ==
  LET me      == workers[w]
      created == me.employee_id = NULL
      emp     == get_or_create_employee(employees, id_seq, me.user)
  IN
  /\ me.pc = "insert"
  /\ IF created /\ EmployeeRows(employees, me.user) # {}
     THEN ConcReject(w, 500, "Database error", NULL, NULL)
     ELSE /\ time_entries' = time_entries \cup
               {[id |-> emp.id_seq.time_entries, employee_id |-> emp.id,
                 company_id |-> me.entry.company_id, project_id |-> me.entry.project_id,
                 service_id |-> me.entry.service_id, date |-> me.entry.date,
                 hours_worked |-> me.entry.hours_worked, start_time |-> me.entry.start_time,
                 end_time |-> me.entry.end_time, comment |-> me.entry.comment]}
          /\ employees' = emp.employees
          /\ id_seq' = [emp.id_seq EXCEPT !.time_entries = @ + 1]
          /\ workers' = [workers EXCEPT ![w] = Idle]
          /\ response' = Reply("create_time_entry", 200, "OK", NULL, NULL)
          /\ UNCHANGED <<companies, projects, project_companies, services>>

\* project 1 is linked to company 1 with 8 hours and u1 has an employee row:
\* the state of Spec after create_project and a delete_time_entry by u1 that
\* found nothing
InitConc ==
  /\ companies = {1, 2}
  /\ projects = {1}
  /\ project_companies = {[project_id |-> 1, company_id |-> 1,
                           available_hours |-> Hours(8), unlimited_hours |-> FALSE]}
  /\ services = {}
  /\ employees = {[id |-> 1, email |-> "u1"]}
  /\ time_entries = {}
  /\ id_seq = [projects |-> 2, services |-> 1, employees |-> 2, time_entries |-> 1]
  /\ response = Reply("delete_time_entry", 404, "Time entry not found", NULL, NULL)
  /\ workers = [w \in Workers |-> Idle]

Begin        == \E w \in Workers, entry \in ConcRequests : ConcBegin(w, entry, "u1")
CheckLink    == \E w \in Workers : ConcCheckLink(w)
CheckBudget  == \E w \in Workers : ConcCheckBudget(w)
CheckOverlap == \E w \in Workers : ConcCheckOverlap(w)
Insert       == \E w \in Workers : ConcInsert(w)

NextConc ==
  \/ Begin
  \/ CheckLink
  \/ CheckBudget
  \/ CheckOverlap
  \/ Insert

SpecConc == InitConc /\ [][NextConc]_vars

(***************************************************************************)
(* Properties.                                                             *)
(***************************************************************************)

RECURSIVE LoggedHours(_, _, _)
\* hours logged on a (project, company) pair, counted row by row over ids
LoggedHours(project_id, company_id, id) ==
  IF id = 0 THEN 0
  ELSE LoggedHours(project_id, company_id, id - 1) +
       LET hit == {r \in time_entries : r.id = id /\ r.project_id = project_id
                                         /\ r.company_id = company_id}
       IN  IF hit = {} THEN 0 ELSE (CHOOSE r \in hit : TRUE).hours_worked

Logged(project_id, company_id) == LoggedHours(project_id, company_id, id_seq.time_entries)

\* the pair has a bounded allocation and no more hours logged than allocated
WithinAllocation(project_id, company_id) ==
  \A pc \in project_companies :
     (pc.project_id = project_id /\ pc.company_id = company_id /\ ~pc.unlimited_hours)
        => Logged(project_id, company_id) <= (IF pc.available_hours = NULL THEN 0 ELSE pc.available_hours)

Windowed(entry) == entry.start_time # NULL /\ entry.end_time # NULL

\* length of the request's window in quarter hours
WindowQuarters(entry) == (entry.end_time - entry.start_time) \div 15

WellFormed(entry) ==
  /\ entry.hours_worked # NULL => (entry.hours_worked >= 0 /\ entry.hours_worked <= 96)
  /\ Windowed(entry) => /\ entry.start_time < entry.end_time
                        /\ entry.hours_worked # NULL => entry.hours_worked = WindowQuarters(entry)
  /\ ~Windowed(entry) => entry.hours_worked # NULL

\* the hours a well-formed request asks to log
RequestedHours(entry) ==
  IF Windowed(entry) THEN WindowQuarters(entry) ELSE entry.hours_worked

BoundedRows(project_id, company_id) ==
  {pc \in project_companies : pc.project_id = project_id /\ pc.company_id = company_id
                               /\ ~pc.unlimited_hours}

\* C8: on a bounded allocation, create_time_entry is rejected for budget
\* exactly when logged + requested > available_hours; the rejection reports
\* remaining = available_hours - logged and stores nothing; a request that
\* is not over budget and does not overlap is admitted.
C8_BudgetRejectionExact ==
  [][ response'.op = "create_time_entry" =>
      \A entry \in {e \in TimeEntryCreateRequests : WellFormed(e)} :
      \A pc \in BoundedRows(entry.project_id, entry.company_id) :
        create_time_entry(entry, "u1") =>
           LET logged == Logged(entry.project_id, entry.company_id)
               over   == logged + RequestedHours(entry) > pc.available_hours
           IN  /\ (response'.detail = "Cannot log hours") <=> over
               /\ over => /\ response'.status = 400
                          /\ response'.remaining = pc.available_hours - logged
                          /\ time_entries' = time_entries
               /\ (~over /\ ~Windowed(entry)) =>
                      /\ response'.status = 200
                      /\ Logged(entry.project_id, entry.company_id)' = logged + RequestedHours(entry) ]_vars

\* C8 witness: 8 hours available, 8 hours logged, half an hour refused with
\* 0 hours remaining
C8_Witness ==
  /\ response.op = "create_time_entry"
  /\ response.detail = "Cannot log hours"
  /\ response.requested = 2
  /\ response.remaining = 0
  /\ \E pc \in project_companies :
        /\ ~pc.unlimited_hours /\ pc.available_hours = Hours(8)
        /\ Logged(pc.project_id, pc.company_id) = Hours(8)

RejectedUnchanged ==
  /\ response'.op = "create_time_entry"
  /\ response'.status \in {400, 422}
  /\ UNCHANGED db

\* C9: create_time_entry is rejected and stores nothing when hours_worked,
\* start_time and end_time are all supplied and hours_worked differs from the
\* window's length, and when neither hours_worked nor a start/end pair is
\* supplied; for a proper window and hours within range the error is the
\* mismatch error.
C9_MismatchOrNothingRejected ==
  [][ response'.op = "create_time_entry" =>
      \A entry \in TimeEntryCreateRequests :
        create_time_entry(entry, "u1") =>
          /\ (Windowed(entry) /\ entry.hours_worked # NULL
                /\ entry.hours_worked # WindowQuarters(entry)) => RejectedUnchanged
          /\ (Windowed(entry) /\ entry.hours_worked # NULL
                /\ entry.start_time < entry.end_time /\ entry.hours_worked <= 96
                /\ entry.hours_worked # WindowQuarters(entry))
               => response'.detail = "hours_worked must match the duration between start_time and end_time"
          /\ (~Windowed(entry) /\ entry.hours_worked = NULL)
               => /\ RejectedUnchanged
                  /\ response'.detail = "Provide either hours_worked, or start_time and end_time" ]_vars

\* C9 witness: the mismatch error was returned
C9_Witness ==
  /\ response.op = "create_time_entry"
  /\ response.status = 400
  /\ response.detail = "hours_worked must match the duration between start_time and end_time"

\* C10: every stored entry that has both start_time and end_time has
\* hours_worked equal to the length of its window.
C10_WindowedHoursEqualDuration ==
  \A r \in time_entries :
     (r.start_time # NULL /\ r.end_time # NULL)
        => r.hours_worked * 15 = r.end_time - r.start_time

\* C10 witness: a windowed entry is stored after an update moved its start
C10_Witness ==
  /\ response.op = "update_time_entry" /\ response.status = 200
  /\ \E r \in time_entries :
        r.start_time = Clock(11, 0) /\ r.end_time = Clock(12, 0) /\ r.hours_worked = Hours(1)

RECURSIVE BudgetedHours(_, _, _)
\* budget_hours of the services tied to a (project, company) pair, by id
BudgetedHours(project_id, company_id, id) ==
  IF id = 0 THEN 0
  ELSE BudgetedHours(project_id, company_id, id - 1) +
       LET hit == {r \in services : r.id = id /\ r.project_id = project_id
                                     /\ r.company_id = company_id}
       IN  IF hit = {} THEN 0 ELSE (CHOOSE r \in hit : TRUE).budget_hours

\* C2: for every bounded allocation, the budget_hours of the services tied to
\* its (project, company) pair sum to at most its available_hours.
C2_ServiceBudgetsWithinAllocation ==
  \A pc \in project_companies :
     ~pc.unlimited_hours =>
        BudgetedHours(pc.project_id, pc.company_id, id_seq.services)
           <= (IF pc.available_hours = NULL THEN 0 ELSE pc.available_hours)

\* two windowed entries of one employee and date overlap iff each starts
\* strictly before the other ends
Overlapping(r1, r2) ==
  /\ r1.employee_id = r2.employee_id /\ r1.date = r2.date
  /\ r1.start_time # NULL /\ r1.end_time # NULL
  /\ r2.start_time # NULL /\ r2.end_time # NULL
  /\ r1.start_time < r2.end_time /\ r2.start_time < r1.end_time

\* C3: no two distinct stored entries of the same employee and date that both
\* have start_time and end_time overlap.
C3_NoOverlap ==
  \A r1 \in time_entries : \A r2 \in time_entries : r1.id # r2.id => ~Overlapping(r1, r2)

\* C3 witness: 09:00-11:00 and 11:00-12:00 of one employee and date are both stored
C3_Witness ==
  \E r1 \in time_entries : \E r2 \in time_entries :
     /\ r1.employee_id = r2.employee_id /\ r1.date = r2.date
     /\ r1.start_time = Clock(9, 0) /\ r1.end_time = Clock(11, 0)
     /\ r2.start_time = Clock(11, 0) /\ r2.end_time = Clock(12, 0)

\* C6: create_service on a (project, company) pair whose allocation is
\* unlimited is admitted whatever budget_hours >= 0 it asks for.
C6_UnlimitedAdmitsAnyBudget ==
  [][ \A service \in ServiceCreateRequests :
        ( /\ create_service(service)
          /\ service.project_id \in projects
          /\ service.company_id # NULL
          /\ \E pc \in project_companies :
                /\ pc.project_id = service.project_id
                /\ pc.company_id = service.company_id
                /\ pc.unlimited_hours )
        => response'.status = 200 ]_vars

\* C7: with 10 hours allocated to a pair and a service of 10 budget hours
\* stored for it, a second service of 1 budget hour for the pair is rejected.
C7_SecondServiceRejected ==
  [][ \A service \in ServiceCreateRequests :
        ( /\ create_service(service)
          /\ service.company_id = 1
          /\ service.budget_hours = Hours(1)
          /\ \E pc \in project_companies :
                /\ pc.project_id = service.project_id /\ pc.company_id = 1
                /\ ~pc.unlimited_hours /\ pc.available_hours = Hours(10)
          /\ \E s \in services :
                /\ s.project_id = service.project_id /\ s.company_id = 1
                /\ s.budget_hours = Hours(10) )
        => (response'.status = 400 /\ services' = services) ]_vars

\* C4: requests that run concurrently on a bounded pair never commit more
\* hours than available_hours: whenever no request is between its budget
\* check and its commit, the pair's logged hours are within the allocation.
C4_NoConcurrentOvercommit ==
  (\A w \in Workers : workers[w].pc \notin {"check_overlap", "insert"})
     => \A pc \in project_companies :
           ~pc.unlimited_hours =>
              Logged(pc.project_id, pc.company_id) <= pc.available_hours

\* C5: of two concurrent create_time_entry requests of one employee and date
\* with overlapping windows at most one commits: the table never holds two
\* overlapping windowed entries.
C5_NoConcurrentOverlap ==
  \A r1 \in time_entries : \A r2 \in time_entries :
     (r1.id < r2.id) => ~Overlapping(r1, r2)

(***************************************************************************)
(* Specification of the hours range, the link requirement and the writes   *)
(* of the allocation ledger: one employee logs and changes hours-only      *)
(* entries with hours at and beyond the ends of [0, 24], on a company that *)
(* is linked to the project and on one that is not, while the project's    *)
(* company links are replaced; one request at a time.                      *)
(***************************************************************************)
\* hours_worked values at and beyond both ends of the admitted range
EdgeHours == {0, Hours(24), Hours(25), -Hours(1)}

\* company_links lists: none, unlimited with and without hours submitted,
\* bounded, bounded without hours, a duplicate company and a missing company
HoursLinkLists ==
  { <<>>,
    <<Link(1, NULL, TRUE)>>,
    <<Link(1, Hours(8), TRUE)>>,
    <<Link(1, NULL, FALSE)>>,
    <<Link(1, Hours(24), FALSE), Link(2, NULL, TRUE)>>,
    <<Link(2, Hours(8), FALSE), Link(1, Hours(8), FALSE)>>,
    <<Link(1, Hours(8), FALSE), Link(1, Hours(24), FALSE)>>,
    <<Link(2, Hours(8), FALSE), Link(3, Hours(8), FALSE)>> }

HoursCreateRequests ==
  {CreateRequest(c, 1, 1, Shape(h, NULL, NULL)) : c \in {1, 2}, h \in EdgeHours} \cup
  {CreateRequest(2, 1, 1, t) : t \in {Shape(NULL, NULL, NULL),
                                      Shape(NULL, Clock(9, 0), Clock(11, 0))}}

\* updates of the hours alone, and one that sets the window 09:00-11:00
HoursUpdateRequests ==
  { [service_id |-> NULL, comment |-> NULL, hours_worked |-> h,
     start_time |-> NULL, end_time |-> NULL] : h \in EdgeHours } \cup
  { [service_id |-> NULL, comment |-> NULL, hours_worked |-> NULL,
     start_time |-> Clock(9, 0), end_time |-> Clock(11, 0)] }

CreateHoursEntry == \E entry \in HoursCreateRequests : create_time_entry(entry, "u1")
UpdateHoursEntry == \E id \in 1..MaxTimeEntries, payload \in HoursUpdateRequests :
                       update_time_entry(id, payload, "u1")
CreateHoursProject == \E l \in HoursLinkLists : create_project([company_links |-> l])
UpdateHoursProject == \E id \in 1..MaxProjects, l \in HoursLinkLists :
                         update_project(id, [company_links |-> l])

NextHours ==
  \/ CreateHoursEntry
  \/ UpdateHoursEntry
  \/ CreateHoursProject
  \/ UpdateHoursProject

SpecHours == Init /\ [][NextHours]_vars

\* the allocation ledger has a row for the pair
Linked(project_id, company_id) ==
  \E pc \in project_companies : pc.project_id = project_id /\ pc.company_id = company_id

\* C11: create_time_entry for a (project, company) pair without an allocation
\* row is rejected and stores nothing, whatever the hours (0 hours
\* included); when the request passes the input checks the error is the
\* "not linked" error.
C11_UnlinkedPairRejected ==
  [][ response'.op = "create_time_entry" =>
      \A entry \in HoursCreateRequests :
        (~Linked(entry.project_id, entry.company_id) /\ create_time_entry(entry, "u1"))
        => /\ response'.status \in {400, 422}
           /\ UNCHANGED db
           /\ WellFormed(entry) => response'.detail = "Project is not linked to company" ]_vars

\* C11 witness: the project is linked to company 1 only, the employee has an
\* entry on it, and a request was refused as not linked
C11_Witness ==
  /\ response.op = "create_time_entry"
  /\ response.detail = "Project is not linked to company"
  /\ Linked(1, 1)
  /\ ~Linked(1, 2)
  /\ time_entries # {}

\* the company_links list as the set of its links, keyed by company id
SubmittedLinks(company_links) == Range(company_links)

\* the company_links list as it is stored: an unlimited link keeps no hours
StoredLinks(company_links) ==
  {[l EXCEPT !.available_hours = IF l.unlimited_hours THEN NULL ELSE @] :
      l \in Range(company_links)}

\* C12 (as stated): after a successful create_project or update_project with
\* company_links = X, the project's allocations read back are exactly X:
\* the same company ids with the available_hours and unlimited flag
\* submitted, and nothing of the previous set.
C12_ReadBackExactlySubmitted ==
  [][ /\ (response'.op = "create_project" /\ response'.status = 200) =>
            \A l \in HoursLinkLists, id \in {id_seq.projects} :
               create_project([company_links |-> l])
                  => get_project_with_companies(id)' = SubmittedLinks(l)
      /\ (response'.op = "update_project" /\ response'.status = 200) =>
            \A id \in 1..MaxProjects, l \in HoursLinkLists :
               update_project(id, [company_links |-> l])
                  => get_project_with_companies(id)' = SubmittedLinks(l) ]_vars

\* C12 (amended): the allocations read back are X with the available_hours
\* of every unlimited link read back as null: the same company ids, the same
\* unlimited flags, the submitted available_hours of the bounded links, and
\* nothing of the previous set.
C12_ReadBackAsStored ==
  [][ /\ (response'.op = "create_project" /\ response'.status = 200) =>
            \A l \in HoursLinkLists, id \in {id_seq.projects} :
               create_project([company_links |-> l])
                  => get_project_with_companies(id)' = StoredLinks(l)
      /\ (response'.op = "update_project" /\ response'.status = 200) =>
            \A id \in 1..MaxProjects, l \in HoursLinkLists :
               update_project(id, [company_links |-> l])
                  => get_project_with_companies(id)' = StoredLinks(l) ]_vars

\* C12 witness: a project on which hours are logged was relinked to company
\* 1 alone, with no available_hours, and reads back as that one link
C12_Witness ==
  /\ response.op = "update_project" /\ response.status = 200
  /\ get_project_with_companies(1) = {Link(1, NULL, FALSE)}
  /\ time_entries # {}

\* the list names a company twice
HasDuplicate(company_links) ==
  \E i \in 1..Len(company_links), j \in 1..Len(company_links) :
     i # j /\ company_links[i].company_id = company_links[j].company_id

\* the list names a company that is not stored
HasMissing(company_links) ==
  \E i \in 1..Len(company_links) : company_links[i].company_id \notin companies

\* C13: create_project and update_project with a company_links list that
\* names a company twice or names a company that does not exist fail and
\* leave every table, the project's stored allocations included, unchanged;
\* on an existing project the failure is a validation error (422 for the
\* duplicate, 400 for the missing company).
C13_BadLinksRejected ==
  [][ /\ response'.op = "create_project" =>
            \A l \in {x \in HoursLinkLists : HasDuplicate(x) \/ HasMissing(x)} :
               create_project([company_links |-> l])
                  => /\ response'.status = (IF HasDuplicate(l) THEN 422 ELSE 400)
                     /\ UNCHANGED db
      /\ response'.op = "update_project" =>
            \A id \in 1..MaxProjects, l \in {x \in HoursLinkLists : HasDuplicate(x) \/ HasMissing(x)} :
               update_project(id, [company_links |-> l])
                  => /\ response'.status \in {400, 404, 422}
                     /\ id \in projects => response'.status = (IF HasDuplicate(l) THEN 422 ELSE 400)
                     /\ UNCHANGED db ]_vars

\* C13 witness: an update naming a missing company was refused on a project
\* that has allocations stored
C13_Witness ==
  /\ response.op = "update_project"
  /\ response.status = 400
  /\ response.detail = "Companies not found"
  /\ Linked(1, 1)

\* C14: a request that ends in a validation, not-found or conflict error
\* leaves the tables projects, project_companies, services, time_entries and
\* employees as they were before the request.
C14_FailedRequestWritesNothing ==
  [][ response'.status \in {400, 404, 422}
        => UNCHANGED <<projects, project_companies, services, time_entries, employees>> ]_vars

(***************************************************************************)
(* Specification of services with time entries: one employee logs hours on *)
(* the services of a project with unlimited hours, moves entries between   *)
(* services and deletes entries and services; one request at a time.       *)
(***************************************************************************)
SummaryServiceRequests ==
  { [project_id |-> 1, company_id |-> 1, name |-> "a", price_type |-> "HOURLY",
     budget_hours |-> Hours(10), fixed_price |-> NULL, hourly_rate |-> 50],
    [project_id |-> 1, company_id |-> NULL, name |-> "b", price_type |-> "FIXED",
     budget_hours |-> Hours(2), fixed_price |-> 100, hourly_rate |-> 50] }

\* an update that changes the price type and nothing else; it is sent for
\* the first service
PriceTypeUpdate ==
  [company_id |-> NULL, name |-> NONE, price_type |-> "FIXED", budget_hours |-> NULL,
   fixed_price |-> NULL, hourly_rate |-> NULL]

\* the ids of the stored services, and no service
ServiceRefs == {NULL} \cup {s.id : s \in services}

ServiceEntryRequest(sid, h) ==
  [CreateRequest(1, 1, 1, Shape(h, NULL, NULL)) EXCEPT !.service_id = sid]

ReassignRequest(sid) ==
  [service_id |-> sid, comment |-> NULL, hours_worked |-> NULL,
   start_time |-> NULL, end_time |-> NULL]

CreateSummaryProject == create_project([company_links |-> <<Link(1, NULL, TRUE)>>])
CreateSummaryService == \E service \in SummaryServiceRequests : create_service(service)
UpdateSummaryService == update_service(1, PriceTypeUpdate)
DeleteEntryService   == \E id \in 1..MaxServices : delete_service(id)
LogServiceEntry ==
  \E sid \in ServiceRefs, h \in {2, Hours(8)} : create_time_entry(ServiceEntryRequest(sid, h), "u1")
ReassignEntry ==
  \E id \in 1..MaxTimeEntries, sid \in ServiceRefs : update_time_entry(id, ReassignRequest(sid), "u1")
DeleteServiceEntry == \E id \in 1..MaxTimeEntries : delete_time_entry(id, "u1")

NextServiceEntries ==
  \/ CreateSummaryProject
  \/ CreateSummaryService
  \/ UpdateSummaryService
  \/ DeleteEntryService
  \/ LogServiceEntry
  \/ ReassignEntry
  \/ DeleteServiceEntry

SpecServiceEntries == Init /\ [][NextServiceEntries]_vars

\* some stored time entry references the service
Referenced(service_id) == \E t \in time_entries : t.service_id = service_id

\* C15: delete_service of a stored service succeeds exactly when no time
\* entry references it; when one does, the delete is rejected and the
\* service and the time entries stay as they are.
C15_DeleteServiceBlockedByEntries ==
  [][ response'.op = "delete_service" =>
      \A id \in 1..MaxServices :
        (delete_service(id) /\ \E s \in services : s.id = id) =>
           /\ (response'.status = 200) <=> ~Referenced(id)
           /\ Referenced(id) => /\ response'.status = 400
                                /\ services' = services
                                /\ time_entries' = time_entries
           /\ ~Referenced(id) => /\ services' = {s \in services : s.id # id}
                                 /\ time_entries' = time_entries ]_vars

\* C15 witness: a delete was refused for a service that an entry references
C15_Witness ==
  /\ response.op = "delete_service"
  /\ response.status = 400
  /\ \E s \in services : Referenced(s.id)

(***************************************************************************)
(* Specification of ownership: two employees log, change and delete        *)
(* entries on a project with unlimited hours, each of them also asking for *)
(* the other's entries; one request at a time.                             *)
(***************************************************************************)
\* the update of the ownership specification: half an hour, no window
HalfHourUpdate ==
  [service_id |-> NULL, comment |-> NULL, hours_worked |-> 2,
   start_time |-> NULL, end_time |-> NULL]

CreateOwnedEntry ==
  \E u \in Users : create_time_entry(CreateRequest(1, 1, 1, Shape(Hours(1), NULL, NULL)), u)
UpdateOwnedEntry ==
  \E u \in Users, id \in 1..MaxTimeEntries : update_time_entry(id, HalfHourUpdate, u)
DeleteOwnedEntry ==
  \E u \in Users, id \in 1..MaxTimeEntries : delete_time_entry(id, u)
CreateOwnedProject == create_project([company_links |-> <<Link(1, NULL, TRUE)>>])

NextOwnership ==
  \/ CreateOwnedEntry
  \/ UpdateOwnedEntry
  \/ DeleteOwnedEntry
  \/ CreateOwnedProject

SpecOwnership == Init /\ [][NextOwnership]_vars

\* the entry is stored and the employee row of its owner is the user's
Owns(user, entry_id) ==
  \E r \in time_entries, e \in employees :
     r.id = entry_id /\ e.id = r.employee_id /\ e.email = user

\* C16: delete_time_entry and update_time_entry for an entry the requesting
\* employee does not own report not-found and leave every time entry as it
\* is; a delete by the owner removes the entry, and only that entry.
C16_OnlyOwnerActs ==
  [][ /\ response'.op = "delete_time_entry" =>
            \A u \in Users, id \in 1..MaxTimeEntries :
               delete_time_entry(id, u) =>
                  /\ ~Owns(u, id) => (response'.status = 404 /\ time_entries' = time_entries)
                  /\ Owns(u, id) => /\ response'.status = 200
                                    /\ time_entries' = {r \in time_entries : r.id # id}
      /\ response'.op = "update_time_entry" =>
            \A u \in Users, id \in 1..MaxTimeEntries :
               (update_time_entry(id, HalfHourUpdate, u) /\ ~Owns(u, id))
                  => (response'.status = 404 /\ time_entries' = time_entries) ]_vars

\* C16 witness: every entry id of the model is stored and owned by one
\* employee, the other employee asked for one of them and got not-found
C16_Witness ==
  /\ response.op \in {"delete_time_entry", "update_time_entry"}
  /\ response.status = 404
  /\ \A id \in 1..MaxTimeEntries : Owns("u1", id)
  /\ \E e \in employees : e.email = "u2"

\* the start, end and hours an update asks the entry r to have
ResolvedStart(r, payload) == IF payload.start_time # NULL THEN payload.start_time ELSE r.start_time
ResolvedEnd(r, payload) == IF payload.end_time # NULL THEN payload.end_time ELSE r.end_time
ResolvedHours(r, payload) ==
  IF ResolvedStart(r, payload) # NULL /\ ResolvedEnd(r, payload) # NULL
  THEN (ResolvedEnd(r, payload) - ResolvedStart(r, payload)) \div 15
  ELSE IF payload.hours_worked # NULL THEN payload.hours_worked ELSE r.hours_worked

\* the update re-submits the hours and the window the entry has
Resubmits(r, payload) ==
  /\ ResolvedStart(r, payload) = r.start_time
  /\ ResolvedEnd(r, payload) = r.end_time
  /\ ResolvedHours(r, payload) = r.hours_worked
  /\ payload.hours_worked \in {NULL, r.hours_worked}

\* C17: update_time_entry leaves the entry it updates out of the overlap
\* search and out of the cumulative sum: it answers "overlaps" only when
\* another entry of the employee and date overlaps the new window, it
\* answers "cannot log" only when the hours of the other entries of the pair
\* plus the new hours exceed available_hours, and an update that re-submits
\* the entry's own hours and window on a pair that is within its allocation
\* is admitted.
C17_UpdateExcludesSelf ==
  [][ response'.op = "update_time_entry" =>
      \A id \in 1..MaxTimeEntries, payload \in HoursUpdateRequests :
      \A r \in {x \in time_entries : x.id = id} :
        update_time_entry(id, payload, "u1") =>
          /\ response'.detail = "This time range overlaps with an existing entry for this day."
               => \E o \in time_entries :
                     /\ o.id # id /\ o.employee_id = r.employee_id /\ o.date = r.date
                     /\ o.start_time # NULL /\ o.end_time # NULL
                     /\ o.start_time < ResolvedEnd(r, payload)
                     /\ ResolvedStart(r, payload) < o.end_time
          /\ response'.detail = "Cannot log hours"
               => \E pc \in BoundedRows(r.project_id, r.company_id) :
                     /\ Logged(r.project_id, r.company_id) - r.hours_worked
                          + ResolvedHours(r, payload) > Coalesce0(pc.available_hours)
                     /\ response'.remaining = Coalesce0(pc.available_hours)
                          - (Logged(r.project_id, r.company_id) - r.hours_worked)
          /\ ( /\ Resubmits(r, payload)
               /\ Linked(r.project_id, r.company_id)
               /\ WithinAllocation(r.project_id, r.company_id) )
               => (response'.status = 200 /\ time_entries' = time_entries) ]_vars

\* C17 witness: an update was admitted on the one entry of a pair whose 24
\* hours the entry fills
C17_Witness ==
  /\ response.op = "update_time_entry" /\ response.status = 200
  /\ \E pc \in BoundedRows(1, 1) : pc.available_hours = Hours(24)
  /\ \A r \in time_entries : r.company_id = 1 /\ r.hours_worked = Hours(24)
  /\ Cardinality(time_entries) = 1

\* the entries of rows that are not in rows2 as they are
Changed(rows, rows2) == rows \ rows2

\* C18: update_time_entry never changes the project_id, company_id, date or
\* employee_id of an entry and changes no entry but the one it updates: after
\* any update request the same entry ids are stored, every entry keeps
\* those four fields, and at most one entry differs from what it was.
C18_UpdateFrame ==
  [][ response'.op = "update_time_entry" =>
        /\ {r.id : r \in time_entries'} = {r.id : r \in time_entries}
        /\ Cardinality(time_entries') = Cardinality(time_entries)
        /\ \A r \in time_entries : \E r2 \in time_entries' :
              /\ r2.id = r.id
              /\ r2.project_id = r.project_id
              /\ r2.company_id = r.company_id
              /\ r2.date = r.date
              /\ r2.employee_id = r.employee_id
        /\ Cardinality(Changed(time_entries, time_entries')) <= 1 ]_vars

\* C18 witness: an update was admitted, the entry it updated has half an
\* hour, an entry of another employee still has the hour it was logged with
C18_Witness ==
  /\ response.op = "update_time_entry" /\ response.status = 200
  /\ \E r, o \in time_entries :
        /\ r.hours_worked = 2 /\ o.hours_worked = Hours(1)
        /\ r.employee_id # o.employee_id

(***************************************************************************)
(* Specification of the services summary: services of both price types are *)
(* created on a project with unlimited hours, the first one is switched to *)
(* FIXED, hours are logged on the services and the summary is read.        *)
(***************************************************************************)
GetCostSummary == \E project_id \in 1..MaxProjects : get_project_services_summary(project_id)

NextSummary ==
  \/ CreateSummaryProject
  \/ CreateSummaryService
  \/ UpdateSummaryService
  \/ LogServiceEntry
  \/ GetCostSummary

SpecSummary == Init /\ [][NextSummary]_vars

RECURSIVE SpentHours(_, _)
\* the hours of the entries 1..id that reference the service
SpentHours(service_id, id) ==
  IF id = 0 THEN 0
  ELSE SpentHours(service_id, id - 1) +
       LET hit == {t \in time_entries : t.id = id /\ t.service_id = service_id}
       IN  IF hit = {} THEN 0 ELSE (CHOOSE t \in hit : TRUE).hours_worked

\* the price of a service, 0 when none is stored
PriceOr0(p) == IF p = NULL THEN 0 ELSE p

RECURSIVE SumOverServices(_, _, _)
\* the sum of one figure over the rows of the services 1..id
SumOverServices(rows, figure, id) ==
  IF id = 0 THEN 0
  ELSE SumOverServices(rows, figure, id - 1) +
       LET hit == {row \in rows : row.id = id}
       IN  IF hit = {} THEN 0 ELSE (CHOOSE row \in hit : TRUE)[figure]

\* C19: the services summary of a project has one row per service of the
\* project; the row's spent_hours is the sum of hours_worked of the time
\* entries that reference the service, its budget_cost is fixed_price for a
\* FIXED service and budget_hours * hourly_rate for an HOURLY one, its
\* spent_cost is 0 for FIXED and spent_hours * hourly_rate for HOURLY (a
\* price that is not stored counts as 0); each of the four totals is the sum
\* of that figure over the rows.
C19_SummaryFigures ==
  (response.op = "get_project_services_summary" /\ response.status = 200) =>
    /\ {row.id : row \in response.services} =
         {s.id : s \in {x \in services : x.project_id = response.project_id}}
    /\ \A row \in response.services : \A s \in services :
         s.id = row.id =>
           /\ row.spent_hours = SpentHours(s.id, id_seq.time_entries)
           /\ s.price_type = "FIXED" =>
                /\ row.budget_cost = Money(PriceOr0(s.fixed_price))
                /\ row.spent_cost = 0
           /\ s.price_type = "HOURLY" =>
                /\ row.budget_cost = s.budget_hours * PriceOr0(s.hourly_rate)
                /\ row.spent_cost = row.spent_hours * PriceOr0(s.hourly_rate)
    /\ response.totals.hours_budget = SumOverServices(response.services, "budget_hours", id_seq.services)
    /\ response.totals.hours_spent = SumOverServices(response.services, "spent_hours", id_seq.services)
    /\ response.totals.cost_budget = SumOverServices(response.services, "budget_cost", id_seq.services)
    /\ response.totals.cost_spent = SumOverServices(response.services, "spent_cost", id_seq.services)

\* C19 witness: the summary was read for a project with a FIXED and an
\* HOURLY service and two entries on the HOURLY one
C19_Witness ==
  /\ response.op = "get_project_services_summary" /\ response.status = 200
  /\ \E f, h \in response.services :
        /\ f.price_type = "FIXED" /\ f.budget_cost = Money(100) /\ f.spent_hours = 0
        /\ h.price_type = "HOURLY" /\ h.spent_hours = Hours(8) + 2
        /\ h.spent_cost = (Hours(8) + 2) * 50
  /\ response.totals.cost_budget = Money(100) + Hours(10) * 50

\* hours outside 0..24
OutOfRange(hours) == hours < 0 \/ hours > Hours(24)

\* the hours a create request resolves to: the length of its window when it
\* has one, else its hours_worked
CreateResolvedHours(entry) ==
  IF entry.start_time # NULL /\ entry.end_time # NULL
  THEN (entry.end_time - entry.start_time) \div 15
  ELSE entry.hours_worked

\* C20: after every step each stored time entry has hours_worked within
\* 0..24 hours, and a create or an update of an own entry whose resolved
\* hours are outside that range is refused as invalid input and changes no
\* table.
C20_HoursWithinDay ==
  [][ /\ \A r \in time_entries' : ~OutOfRange(r.hours_worked)
      /\ response'.op = "create_time_entry" =>
           \A entry \in HoursCreateRequests :
             ( /\ CreateResolvedHours(entry) # NULL
               /\ OutOfRange(CreateResolvedHours(entry))
               /\ create_time_entry(entry, "u1") )
             => (response'.status = 422 /\ UNCHANGED db)
      /\ response'.op = "update_time_entry" =>
           \A id \in 1..MaxTimeEntries, payload \in HoursUpdateRequests :
           \A r \in {x \in time_entries : x.id = id} :
             ( /\ OutOfRange(ResolvedHours(r, payload))
               /\ update_time_entry(id, payload, "u1") )
             => (response'.status = 422 /\ UNCHANGED db) ]_vars

\* C20 witness: an entry of 0 hours and an entry of 24 hours are stored and
\* the last update was refused as invalid input
C20_Witness ==
  /\ response.op = "update_time_entry" /\ response.status = 422
  /\ \E a, b \in time_entries : a.hours_worked = 0 /\ b.hours_worked = Hours(24)

\* the allocation a service of the pair is validated against is unlimited:
\* the pair's own row when a company is given, any row of the project when
\* none is
ValueUnlimited(project_id, company_id) ==
  \E pc \in project_companies :
     /\ pc.project_id = project_id
     /\ company_id # NULL => pc.company_id = company_id
     /\ pc.unlimited_hours

RECURSIVE BoundedAvailable(_, _)
\* available_hours of the bounded allocations of the project whose company
\* is one of 1..c
BoundedAvailable(project_id, c) ==
  IF c = 0 THEN 0
  ELSE BoundedAvailable(project_id, c - 1) +
       LET hit == {pc \in project_companies :
                     pc.project_id = project_id /\ pc.company_id = c /\ ~pc.unlimited_hours}
       IN  IF hit = {} THEN 0
           ELSE LET pc == CHOOSE x \in hit : TRUE
                IN  IF pc.available_hours = NULL THEN 0 ELSE pc.available_hours

\* the hours a service of the pair is validated against when the value is
\* not unlimited
ValueHours(project_id, company_id) ==
  IF company_id # NULL
  THEN BoundedAvailable(project_id, company_id) - BoundedAvailable(project_id, company_id - 1)
  ELSE BoundedAvailable(project_id, 2)

\* C21: create_service for a stored project validates budget_hours against
\* the pair's available_hours (0 without a row) when a company is given and
\* against the sum over the project's bounded allocations when none is, the
\* value being unlimited when the allocation (or any allocation of the
\* project) is unlimited; it rejects for budget exactly when the value is
\* not unlimited and budget_hours is greater than it.
C21_CreateServiceBudgetCheck ==
  [][ response'.op = "create_service" =>
      \A service \in ServiceCreateRequests :
        (create_service(service) /\ service.project_id \in projects)
        => ( response'.status = 400
             <=> ( /\ ~ValueUnlimited(service.project_id, service.company_id)
                   /\ service.budget_hours > ValueHours(service.project_id, service.company_id) ) ) ]_vars

(***************************************************************************)
(* Specification of service updates: services of 1 and 10 budget hours are *)
(* created on company 1 of a project that allocates 10 hours to company 1  *)
(* and 5 hours to company 2, and are updated; one request at a time.       *)
(***************************************************************************)
MoveLinkLists ==
  { <<Link(1, Hours(10), FALSE), Link(2, Hours(5), FALSE)>>,
    <<Link(1, Hours(10), FALSE)>> }

MoveServiceRequests ==
  { [project_id |-> 1, company_id |-> 1, name |-> "a", price_type |-> "HOURLY",
     budget_hours |-> b, fixed_price |-> NULL, hourly_rate |-> 50] : b \in {Hours(1), Hours(10)} }

CreateMoveProject == \E l \in MoveLinkLists : create_project([company_links |-> l])
CreateMoveService == \E service \in MoveServiceRequests : create_service(service)
UpdateMoveService ==
  \E id \in 1..MaxServices, service \in ServiceUpdateRequests : update_service(id, service)

NextServiceMoves ==
  \/ CreateMoveProject
  \/ CreateMoveService
  \/ UpdateMoveService

SpecServiceMoves == Init /\ [][NextServiceMoves]_vars

\* the answer is the budget rejection of a service write
BudgetRejected(r) == r.status = 400 /\ r.detail = "budget_hours cannot exceed available hours"

\* C22: update_service checks the budget only when the update supplies
\* company_id or budget_hours, and then with the supplied company_id (else
\* the stored one) and the supplied budget_hours (else the stored ones): an
\* update that only moves the service to a company whose bounded allocation
\* is smaller than the stored budget_hours is rejected and leaves the
\* services as they are, a budget rejection reports the budget_hours it
\* checked, and an update that supplies neither field is not rejected for
\* budget.
C22_UpdateServiceRevalidation ==
  [][ response'.op = "update_service" =>
      \A id \in 1..MaxServices, service \in ServiceUpdateRequests :
      \A s \in {x \in services : x.id = id} :
        update_service(id, service) =>
          /\ BudgetRejected(response')
               => /\ service.company_id # NULL \/ service.budget_hours # NULL
                  /\ response'.requested =
                       (IF service.budget_hours # NULL THEN service.budget_hours ELSE s.budget_hours)
                  /\ response'.requested > response'.remaining
                  /\ services' = services
          /\ ( /\ service.company_id # NULL /\ service.budget_hours = NULL
               /\ \E pc \in BoundedRows(s.project_id, service.company_id) :
                     pc.available_hours # NULL /\ pc.available_hours < s.budget_hours )
               => (BudgetRejected(response') /\ services' = services)
          /\ ( /\ service.company_id # NULL
               /\ \E pc \in BoundedRows(s.project_id, service.company_id) :
                     pc.available_hours # NULL /\
                     pc.available_hours >= (IF service.budget_hours # NULL THEN service.budget_hours
                                            ELSE s.budget_hours) )
               => response'.status = 200
          /\ (service.company_id = NULL /\ service.budget_hours = NULL)
               => ~BudgetRejected(response') ]_vars

\* C22 witness: a service of 10 budget hours on company 1 was asked to move
\* to company 2, which has 5 hours, and the update was rejected for budget
C22_Witness ==
  /\ response.op = "update_service" /\ BudgetRejected(response)
  /\ response.requested = Hours(10) /\ response.remaining = Hours(5)
  /\ \E s \in services : s.company_id = 1 /\ s.budget_hours = Hours(10)
  /\ \E pc \in BoundedRows(1, 2) : pc.available_hours = Hours(5)

\* C23: update_service is not rejected for budget when the allocation it
\* validates against is unlimited: the row of the (project, company) pair of
\* the updated service, or any row of the project for a service without
\* company, as create_service decides for the same pair.
C23_UpdateServiceUnlimited ==
  [][ response'.op = "update_service" =>
      \A id \in 1..MaxServices, service \in ServiceUpdateRequests :
      \A s \in {x \in services : x.id = id} :
        ( /\ update_service(id, service)
          /\ service.company_id # NULL \/ service.budget_hours # NULL
          /\ ValueUnlimited(s.project_id,
                            IF service.company_id # NULL THEN service.company_id ELSE s.company_id) )
        => ~BudgetRejected(response') ]_vars

(***************************************************************************)
(* Specification of relinking: a project allocates hours to its companies, *)
(* services are budgeted and hours are logged on them, and the company     *)
(* links of the project are replaced by lower, other or no allocations;    *)
(* one request at a time.                                                  *)
(***************************************************************************)
RelinkLists ==
  { <<Link(1, Hours(10), FALSE), Link(2, Hours(5), FALSE)>>,
    <<Link(1, Hours(1), FALSE)>>,
    <<Link(2, NULL, TRUE)>>,
    <<>> }

CreateRelinkProject == \E l \in RelinkLists : create_project([company_links |-> l])
UpdateRelinkProject ==
  \E id \in 1..MaxProjects, l \in RelinkLists : update_project(id, [company_links |-> l])
LogRelinkEntry ==
  \E c \in {1, 2}, h \in {2, Hours(8)} :
     create_time_entry(CreateRequest(c, 1, 1, Shape(h, NULL, NULL)), "u1")

NextRelink ==
  \/ CreateRelinkProject
  \/ UpdateRelinkProject
  \/ CreateMoveService
  \/ LogRelinkEntry

SpecRelink == Init /\ [][NextRelink]_vars

OrderLinkLists ==
  { <<Link(1, Hours(1), FALSE), Link(2, NULL, TRUE)>>,
    <<Link(2, NULL, TRUE)>> }

OrderCreateRequests ==
  { CreateRequest(c, 1, 1, t) :
      c \in {1, 2}, t \in {Shape(2, NULL, NULL), Shape(Hours(1), NULL, NULL),
                            Shape(NULL, Clock(9, 0), Clock(11, 0))} }

OrderUpdateRequests == {HalfHourUpdate, WindowUpdate(Clock(9, 0), Clock(11, 0))}

CreateOrderProject == \E l \in OrderLinkLists : create_project([company_links |-> l])
CreateOrderEntry == \E entry \in OrderCreateRequests : create_time_entry(entry, "u1")
UpdateOrderEntry ==
  \E id \in 1..MaxTimeEntries, payload \in OrderUpdateRequests : update_time_entry(id, payload, "u1")

NextOrder ==
  \/ CreateOrderProject
  \/ CreateOrderEntry
  \/ UpdateOrderEntry

SpecOrder == Init /\ [][NextOrder]_vars

\* the hours of the request fit the bounded allocation of the pair, if any,
\* next to the hours already logged by other entries
FitsAllocation(project_id, company_id, others, hours) ==
  \A pc \in BoundedRows(project_id, company_id) :
     others + hours <= (IF pc.available_hours = NULL THEN 0 ELSE pc.available_hours)

\* C25: create_time_entry and update_time_entry check the allocation row,
\* then the budget, then the overlap: a request is answered with the overlap
\* error only when its pair is linked and its hours fit the allocation.
C25_OverlapReportedLast ==
  [][ response'.detail = "This time range overlaps with an existing entry for this day." =>
      /\ response'.op = "create_time_entry" =>
           \A entry \in OrderCreateRequests :
             create_time_entry(entry, "u1") =>
               /\ Linked(entry.project_id, entry.company_id)
               /\ FitsAllocation(entry.project_id, entry.company_id,
                                 Logged(entry.project_id, entry.company_id),
                                 CreateResolvedHours(entry))
      /\ response'.op = "update_time_entry" =>
           \A id \in 1..MaxTimeEntries, payload \in OrderUpdateRequests :
           \A r \in {x \in time_entries : x.id = id} :
             update_time_entry(id, payload, "u1") =>
               /\ Linked(r.project_id, r.company_id)
               /\ FitsAllocation(r.project_id, r.company_id,
                                 Logged(r.project_id, r.company_id) - r.hours_worked,
                                 ResolvedHours(r, payload)) ]_vars

RelinkIdle == [pc |-> "idle"]

ConcLinkLists(w) ==
  IF w = 1
  THEN { <<Link(1, Hours(2), FALSE)>>, <<Link(1, Hours(8), FALSE)>>, <<Link(1, NULL, TRUE)>> }
  ELSE { <<Link(2, Hours(8), FALSE)>>, <<Link(2, NULL, TRUE)>>, <<Link(3, Hours(8), FALSE)>> }

\* the transaction of the worker is open: BEGIN has run, COMMIT has not
InTransaction(w) == workers[w].pc \in {"delete", "deleting", "insert", "commit"}

\* lines 262-287: connect, BEGIN, the project and the companies exist
ConcRelinkBegin(w, project_id, company_links) ==
  /\ workers[w].pc = "idle"
  /\ IF project_id \notin projects
     THEN /\ workers' = [workers EXCEPT ![w] = [pc |-> "done", status |-> 404,
                                                 company_links |-> company_links]]
          /\ response' = Reply("update_project", 404, "Project not found", NULL, NULL)
     ELSE IF missing_ids(company_links) # {}
     THEN /\ workers' = [workers EXCEPT ![w] = [pc |-> "done", status |-> 400,
                                                 company_links |-> company_links]]
          /\ response' = Reply("update_project", 400, "Companies not found", NULL, NULL)
     ELSE /\ workers' = [workers EXCEPT ![w] =
                 [pc |-> "delete", project_id |-> project_id, company_links |-> company_links,
                  targets |-> {}, deleted |-> {}, inserted |-> {}]]
          /\ UNCHANGED response
  /\ UNCHANGED db

\* line 136: the DELETE starts and finds the committed rows of the project
ConcRelinkDeleteStart(w) ==
  LET me == workers[w]
  IN
  /\ me.pc = "delete"
  /\ workers' = [workers EXCEPT ![w].pc = "deleting",
                                ![w].targets = ProjectRows(project_companies, me.project_id)]
  /\ UNCHANGED <<response, db>>

\* line 136: the DELETE ends once none of its rows is held by another open
\* transaction; the rows another transaction deleted and committed are
\* skipped
ConcRelinkDeleteEnd(w) ==
  LET me == workers[w]
  IN
  /\ me.pc = "deleting"
  /\ \A v \in Workers \ {w} : InTransaction(v) => workers[v].deleted \cap me.targets = {}
  /\ workers' = [workers EXCEPT ![w].pc = "insert", ![w].deleted = me.targets]
  /\ UNCHANGED <<response, db>>

\* lines 139-149: the INSERTs of the submitted links
ConcRelinkInsert(w) ==
  LET me == workers[w]
  IN
  /\ me.pc = "insert"
  /\ workers' = [workers EXCEPT ![w].pc = "commit",
                                ![w].inserted = update_project_companies({}, me.project_id, me.company_links)]
  /\ UNCHANGED <<response, db>>

\* lines 321-325: the read back and COMMIT; the rows this transaction
\* deleted are gone for the DELETEs that wait for them
ConcRelinkCommit(w) ==
  LET me == workers[w]
  IN
  /\ me.pc = "commit"
  /\ project_companies' = (project_companies \ me.deleted) \cup me.inserted
  /\ workers' = [v \in Workers |->
                   IF v = w THEN [pc |-> "done", status |-> 200, company_links |-> me.company_links]
                   ELSE IF workers[v].pc = "deleting"
                        THEN [workers[v] EXCEPT !.targets = @ \ me.deleted]
                        ELSE workers[v]]
  /\ response' = Reply("update_project", 200, "OK", NULL, NULL)
  /\ UNCHANGED <<companies, projects, services, employees, time_entries, id_seq>>

InitRelinkConc ==
  /\ companies = {1, 2}
  /\ projects = {1}
  /\ project_companies \in
       { {},
         {[project_id |-> 1, company_id |-> 1, available_hours |-> Hours(4), unlimited_hours |-> FALSE]} }
  /\ services = {}
  /\ employees = {}
  /\ time_entries = {}
  /\ id_seq = [projects |-> 2, services |-> 1, employees |-> 1, time_entries |-> 1]
  /\ response = Reply("none", 0, "", NULL, NULL)
  /\ workers = [w \in Workers |-> RelinkIdle]

RelinkBegin ==
  \E w \in Workers, project_id \in {1, 2} : \E l \in ConcLinkLists(w) :
     ConcRelinkBegin(w, project_id, l)
RelinkDeleteStart == \E w \in Workers : ConcRelinkDeleteStart(w)
RelinkDeleteEnd   == \E w \in Workers : ConcRelinkDeleteEnd(w)
RelinkInsert      == \E w \in Workers : ConcRelinkInsert(w)
RelinkCommit      == \E w \in Workers : ConcRelinkCommit(w)

NextRelinkConc ==
  \/ RelinkBegin
  \/ RelinkDeleteStart
  \/ RelinkDeleteEnd
  \/ RelinkInsert
  \/ RelinkCommit

SpecRelinkConc == InitRelinkConc /\ [][NextRelinkConc]_vars

\* C27: when two concurrent update_project requests on one project with the
\* link sets X and Y have both succeeded, the allocations of the project
\* are exactly X or exactly Y.
C27_ConcurrentRelinkIsOneOfTheTwo ==
  (\A w \in Workers : workers[w].pc = "done" /\ workers[w].status = 200)
    => \E w \in Workers :
          get_project_with_companies(1) = StoredLinks(workers[w].company_links)

\* C28: every stored time entry has both start_time and end_time or neither.
C28_WindowWholeOrAbsent ==
  \A r \in time_entries : (r.start_time = NULL) <=> (r.end_time = NULL)

(***************************************************************************)
(* Specification of partial updates: one employee logs entries with a      *)
(* service and a comment on a project with unlimited hours and then        *)
(* updates the hours alone or the time window alone; one request at a      *)
(* time.  Comment texts are numbered: 1 is a text.                         *)
(***************************************************************************)
PatchEntryRequests ==
  { [CreateRequest(1, 1, 1, Shape(Hours(1), NULL, NULL)) EXCEPT !.service_id = sid, !.comment = c] :
      sid \in ServiceRefs, c \in {NULL, 1} }

PatchUpdateRequests == {HalfHourUpdate, WindowUpdate(Clock(9, 0), Clock(11, 0))}

LogPatchEntry == \E entry \in PatchEntryRequests : create_time_entry(entry, "u1")
UpdatePatchEntry ==
  \E id \in 1..MaxTimeEntries, payload \in PatchUpdateRequests : update_time_entry(id, payload, "u1")

NextPatch ==
  \/ CreateSummaryProject
  \/ CreateSummaryService
  \/ LogPatchEntry
  \/ UpdatePatchEntry

SpecPatch == Init /\ [][NextPatch]_vars

\* C29: an update_time_entry that supplies only hours_worked or only a time
\* window leaves the stored service_id and comment of the entry as they
\* are.
C29_UpdateKeepsServiceAndComment ==
  [][ response'.op = "update_time_entry" =>
      \A r \in time_entries : \A r2 \in time_entries' :
         r2.id = r.id => (r2.service_id = r.service_id /\ r2.comment = r.comment) ]_vars

(***************************************************************************)
(* Specification of services across projects: two projects with unlimited  *)
(* hours for company 1 are stored, each with one HOURLY service; one       *)
(* employee logs hours on either project with any stored service, moves    *)
(* entries between services, services are deleted and the summaries are    *)
(* read; one request at a time.                                            *)
(***************************************************************************)
InitTwoProjects ==
  /\ companies = {1, 2}
  /\ projects = {1, 2}
  /\ project_companies =
       {[project_id |-> p, company_id |-> 1, available_hours |-> NULL, unlimited_hours |-> TRUE] :
          p \in {1, 2}}
  /\ services =
       {[id |-> p, project_id |-> p, company_id |-> 1, name |-> "a", price_type |-> "HOURLY",
         budget_hours |-> Hours(10), fixed_price |-> NULL, hourly_rate |-> 50] : p \in {1, 2}}
  /\ employees = {}
  /\ time_entries = {}
  /\ id_seq = [projects |-> 3, services |-> 3, employees |-> 1, time_entries |-> 1]
  /\ response = Reply("create_service", 200, "OK", NULL, NULL)
  /\ workers = [w \in Workers |-> [pc |-> "idle"]]

LogCrossEntry ==
  \E p \in {1, 2}, sid \in ServiceRefs, h \in {2, Hours(8)} :
     create_time_entry([CreateRequest(1, p, 1, Shape(h, NULL, NULL)) EXCEPT !.service_id = sid], "u1")
MoveCrossEntry ==
  \E id \in 1..MaxTimeEntries, sid \in ServiceRefs : update_time_entry(id, ReassignRequest(sid), "u1")
DeleteCrossService == \E id \in {1, 2} : delete_service(id)
GetCrossSummary == \E project_id \in {1, 2} : get_project_services_summary(project_id)

NextCross ==
  \/ LogCrossEntry
  \/ MoveCrossEntry
  \/ DeleteCrossService
  \/ GetCrossSummary

SpecCross == InitTwoProjects /\ [][NextCross]_vars

\* C30: every time entry with a service_id references a stored service of
\* the entry's own project, and the spent_hours of a service in a project
\* summary are the hours logged for it on that project.
C30_ServiceOfSameProject ==
  /\ \A r \in time_entries :
        r.service_id # NULL =>
           \E s \in services : s.id = r.service_id /\ s.project_id = r.project_id
  /\ (response.op = "get_project_services_summary" /\ response.status = 200) =>
        \A row \in response.services :
           row.spent_hours =
             SumHoursWorked({t \in time_entries :
                               t.service_id = row.id /\ t.project_id = response.project_id})

====
